---- MODULE Spec2Model ----
(***************************************************************************)
(* Model of src/source/src/stack.ts: the parameter-group registry of       *)
(* SolutionStack (addGroupParam / _setParamGroups) and the construction    *)
(* sequence of KeycloakStack.                                              *)
(*                                                                         *)
(* JavaScript values are modelled as follows.                              *)
(*   - a plain object used as a map is a sequence of [key, val] entries in *)
(*     property-creation order; Object.keys lists the array-index keys in  *)
(*     ascending numeric order first and the other keys in creation order; *)
(*   - an array is a sequence;                                             *)
(*   - an array element is a record [kind, logicalId];                     *)
(*   - `undefined` read from a property is the string UNDEFINED, a thrown  *)
(*     TypeError is the string TYPE_ERROR;                                 *)
(*   - an optional field is <<>> when unset and <<v>> when set to v;       *)
(*   - a parameter's value is a deferred reference (a token) that the      *)
(*     template's instantiation resolves against the supplied values.      *)
(* Labels range over names whose assignment creates an own data property   *)
(* of the object ('__proto__' is outside this domain).                     *)
(***************************************************************************)
EXTENDS Integers, Sequences, FiniteSets, TLC

VARIABLES
  paramGroup,       \* registry slot -> this._paramGroup (stack.ts:6)
  metadata,         \* instance -> ParameterGroups of templateOptions.metadata
  failed,           \* instance -> an addGroupParam call threw
  history,          \* the props of the addGroupParam calls made so far on instance 1
  flags,            \* instance -> props of the KeycloakStack constructor
  pc,               \* instance -> position in the constructor
  declared,         \* instance -> CfnParameters created by makeParam, in order
  keycloakSettings, \* instance -> this._keycloakSettings
  composer,         \* instance -> props of the KeyCloak constructs created
  trace,            \* instance -> makeParam / addGroupParam / KeyCloak calls, in order
  resolved          \* instance -> the composer's settings resolved at instantiation

vars == <<paramGroup, metadata, failed, history, flags, pc, declared,
          keycloakSettings, composer, trace, resolved>>

\* number of addGroupParam calls explored on the bare registry
MaxCalls == 2

Instances == {1, 2}

UNDEFINED == "<undefined>"
TYPE_ERROR == "<TypeError>"

----------------------------------------------------------------------------
\* JavaScript object and array helpers

RECURSIVE MapSeq(_, _)
MapSeq(F(_), s) == IF s = <<>> THEN <<>> ELSE <<F(Head(s))>> \o MapSeq(F, Tail(s))

RECURSIVE Flatten(_)
Flatten(ss) == IF ss = <<>> THEN <<>> ELSE Head(ss) \o Flatten(Tail(ss))

RECURSIVE Dedup(_)
Dedup(s) ==
  IF s = <<>> THEN <<>>
  ELSE LET front == Dedup(SubSeq(s, 1, Len(s) - 1))
           last == s[Len(s)]
       IN IF \E i \in 1..Len(front) : front[i] = last THEN front ELSE Append(front, last)

Range(s) == {s[i] : i \in 1..Len(s)}

\* the numeric value of a canonical array-index property name, -1 for any other name
ArrayIndex(k) ==
  CASE k = "1" -> 1
    [] k = "2" -> 2
    [] OTHER -> -1

IsArrayIndex(k) == ArrayIndex(k) >= 0

EmptyObject == <<>>

HasOwn(o, k) == \E i \in 1..Len(o) : o[i].key = k

OwnValue(o, k) == o[CHOOSE i \in 1..Len(o) : o[i].key = k].val

\* o[k] = v : replaces the value of an own property in place, or creates the property last
SetProp(o, k, v) ==
  IF HasOwn(o, k)
  THEN [i \in 1..Len(o) |-> IF o[i].key = k THEN [key |-> k, val |-> v] ELSE o[i]]
  ELSE Append(o, [key |-> k, val |-> v])

CreationOrderKeys(o) == [i \in 1..Len(o) |-> o[i].key]

\* Object.keys(o): integer-like keys ascending, then string keys in creation order
ObjectKeys(o) ==
  LET ks == CreationOrderKeys(o)
  IN SortSeq(SelectSeq(ks, IsArrayIndex), LAMBDA a, b : ArrayIndex(a) < ArrayIndex(b))
     \o SelectSeq(ks, LAMBDA k : ~IsArrayIndex(k))

\* names every object inherits from Object.prototype (those among the labels used)
ObjectPrototypeNames == {"toString"}

Param(id) == [kind |-> "CfnParameter", logicalId |-> id]
Undefined == [kind |-> "undefined", logicalId |-> ""]
ProtoFunction == [kind |-> "function", logicalId |-> ""]

----------------------------------------------------------------------------
\* SolutionStack

ExistingAppended(params, existing) == existing \o params

\* params.concat(existing): the new parameters first, the registered ones after
ConcatParams(params, existing) == params \o existing

\* the argument of concat in `params.concat(this._paramGroup[key] ?? [])`:
\* an own property's array, [] when the lookup is undefined, and the inherited
\* member (not nullish, not an array, so concat appends it as one element)
\* when the key names a member of Object.prototype
ExistingGroup(o, key) ==
  IF HasOwn(o, key) THEN OwnValue(o, key)
  ELSE IF key \in ObjectPrototypeNames THEN <<ProtoFunction>>
  ELSE <<>>

\* the loop of addGroupParam over the keys ks of props
RECURSIVE AssignGroups(_, _, _)
AssignGroups(o, props, ks) ==
  IF ks = <<>> THEN o
  ELSE LET key == Head(ks)
           params == OwnValue(props, key)
       IN AssignGroups(SetProp(o, key, ConcatParams(params, ExistingGroup(o, key))),
                       props, Tail(ks))

Truthy(p) == p.kind \notin {"undefined", "null"}

\* p.logicalId: throws on undefined/null, undefined on an object without the property
LogicalIdOf(p) ==
  IF ~Truthy(p) THEN TYPE_ERROR
  ELSE IF p.kind = "CfnParameter" THEN p.logicalId
  ELSE UNDEFINED

\* p => p ? p.logicalId : ''
GuardedId(p) == IF Truthy(p) THEN LogicalIdOf(p) ELSE ""

TruthyId(id) == id \notin {"", UNDEFINED}

KeepAll(id) == TRUE

\* id => id, the predicate of filter
FilterId(id) == TruthyId(id)

mkgrp(label, params) ==
  [Label |-> label, Parameters |-> SelectSeq(MapSeq(GuardedId, params), FilterId)]

Throws(grp) == \E i \in 1..Len(grp.Parameters) : grp.Parameters[i] = TYPE_ERROR

\* Object.keys(this._paramGroup).map(key => mkgrp(key, this._paramGroup[key]))
ParameterGroups(o) ==
  LET ks == ObjectKeys(o)
  IN [i \in 1..Len(ks) |-> mkgrp(ks[i], OwnValue(o, ks[i]))]

SetParamGroupsThrows(o) == \E i \in 1..Len(o) : Throws(mkgrp(o[i].key, o[i].val))

SharedRegistry(i) == 1

\* the registry an instance uses: the instance field _paramGroup, one per instance
RegistryOf(i) == i

\* the registry after addGroupParam(props)
AfterAddGroupParam(o, props) == AssignGroups(o, props, ObjectKeys(props))

\* addGroupParam(props) on instance i, with _setParamGroups
AddGroupParam(i, props) ==
  LET r == RegistryOf(i)
      o == AfterAddGroupParam(paramGroup[r], props)
  IN /\ paramGroup' = [paramGroup EXCEPT ![r] = o]
     /\ IF SetParamGroupsThrows(o)
        THEN /\ failed' = [failed EXCEPT ![i] = TRUE]
             /\ UNCHANGED metadata
        ELSE /\ metadata' = [metadata EXCEPT ![i] = ParameterGroups(o)]
             /\ UNCHANGED failed

----------------------------------------------------------------------------
\* The registry on its own: any sequence of addGroupParam calls on one stack

Labels == {"A", "2", "1", "toString"}

P1 == Param("P1")
P2 == Param("P2")
PEmpty == Param("")

ParamLists ==
  {<<>>, <<P1>>, <<P1, P2>>, <<P2, P1>>, <<Undefined, P2>>, <<P1, PEmpty>>, <<PEmpty>>}

ShortLists == {<<P1>>, <<Undefined, P2>>}

\* the props objects passed to addGroupParam: no key, one key, two keys
PropsObjects ==
  {EmptyObject}
  \cup {<<[key |-> k, val |-> ps]>> : k \in Labels, ps \in ParamLists}
  \cup {<<[key |-> kk[1], val |-> ps], [key |-> kk[2], val |-> <<P2, P1>>]>> :
          kk \in {q \in Labels \X Labels : q[1] # q[2]}, ps \in ShortLists}

RegInit ==
  /\ paramGroup = [r \in Instances |-> EmptyObject]
  /\ metadata = [i \in Instances |-> <<>>]
  /\ failed = [i \in Instances |-> FALSE]
  /\ history = <<>>
  /\ flags = [i \in Instances |-> [auroraServerless |-> UNDEFINED, fromExistingVPC |-> UNDEFINED]]
  /\ pc = [i \in Instances |-> "base"]
  /\ declared = [i \in Instances |-> <<>>]
  /\ keycloakSettings = [i \in Instances |-> <<>>]
  /\ composer = [i \in Instances |-> <<>>]
  /\ trace = [i \in Instances |-> <<>>]
  /\ resolved = [i \in Instances |-> <<>>]

Register ==
  \E props \in PropsObjects :
    /\ Len(history) < MaxCalls
    /\ ~failed[1]
    /\ AddGroupParam(1, props)
    /\ history' = Append(history, props)
    /\ UNCHANGED <<flags, pc, declared, keycloakSettings, composer, trace, resolved>>

RegNext == Register

SpecReg == RegInit /\ [][RegNext]_vars

----------------------------------------------------------------------------
\* KeycloakStack

FlagValues == {"true", "false", UNDEFINED}

\* truthiness of an optional boolean flag
IsTrue(f) == f = "true"

INSTANCE_TYPES ==
  {"m5.large", "m5.xlarge", "m5.2xlarge", "m5.4xlarge", "m5.8xlarge",
   "m5a.xlarge", "m5a.2xlarge", "m5a.4xlarge", "m5a.8xlarge", "m5d.xlarge",
   "m5d.2xlarge", "m5d.4xlarge", "m5d.8xlarge", "m6g.xlarge",
   "m6g.2xlarge", "m6g.4xlarge", "m6g.8xlarge", "c5.xlarge", "c5.2xlarge",
   "c5.4xlarge", "c5.9xlarge", "c5d.xlarge", "c5d.2xlarge", "c5d.4xlarge",
   "c5d.9xlarge", "c5n.xlarge", "c5n.2xlarge", "c5n.4xlarge",
   "c5n.9xlarge", "c6g.xlarge", "c6g.2xlarge", "c6g.4xlarge",
   "c6g.8xlarge", "cc2.8xlarge", "z1d.xlarge", "z1d.2xlarge",
   "z1d.3xlarge", "z1d.6xlarge", "r5.large", "r5.xlarge", "r5.2xlarge",
   "r5.4xlarge", "r5.8xlarge", "r5a.xlarge", "r5a.2xlarge", "r5a.4xlarge",
   "r5a.8xlarge", "r5d.xlarge", "r5d.2xlarge", "r5d.4xlarge",
   "r5d.8xlarge", "r6g.xlarge", "r6g.2xlarge", "r6g.4xlarge",
   "r6g.8xlarge", "cr1.8xlarge", "i3.xlarge", "i3.2xlarge", "i3.4xlarge",
   "i3.8xlarge", "i3en.xlarge", "i3en.2xlarge", "i3en.3xlarge",
   "i3en.6xlarge", "d2.xlarge", "d2.2xlarge", "d2.4xlarge", "d2.8xlarge",
   "g4dn.xlarge", "g4dn.2xlarge", "g4dn.4xlarge", "g4dn.8xlarge",
   "p2.xlarge", "p2.8xlarge", "p3.2xlarge", "p3.8xlarge"}

\* the logical id CloudFormation gets for a top-level construct id: the id with
\* the non-alphanumeric characters removed (of the ids declared, one has any)
LogicalId(id) == IF id = "Keycloak Version" THEN "KeycloakVersion" ELSE id

\* new CfnParameter(this, id, props); an absent prop is <<>>, a present one <<v>>
makeParam(id, type, default, allowedValues, minLength, minValue) ==
  [kind |-> "CfnParameter", id |-> id, logicalId |-> LogicalId(id), type |-> type,
   default |-> default, allowedValues |-> allowedValues,
   minLength |-> minLength, minValue |-> minValue]

\* deferred values
Literal(s) == [fn |-> "Literal", arg |-> s, index |-> 0]
Ref(p) == [fn |-> "Ref", arg |-> p.logicalId, index |-> 0]
FnSelect(index, p) == [fn |-> "Fn::Select", arg |-> p.logicalId, index |-> index]
\* new ec2.InstanceType(p.valueAsString)
InstanceType(p) == [fn |-> "InstanceType", arg |-> p.logicalId, index |-> 0]

certificateArnParam == makeParam("CertificateArn", "String", <<>>, <<>>, <<5>>, <<>>)
databaseInstanceTypeParam ==
  makeParam("DatabaseInstanceType", "String", <<"r5.large">>, <<INSTANCE_TYPES>>, <<>>, <<>>)
vpcIdParam == makeParam("VpcId", "AWS::EC2::VPC::Id", <<>>, <<>>, <<>>, <<>>)
pubSubnetsParam == makeParam("PubSubnets", "List<AWS::EC2::Subnet::Id>", <<>>, <<>>, <<>>, <<>>)
privSubnetsParam == makeParam("PrivSubnets", "List<AWS::EC2::Subnet::Id>", <<>>, <<>>, <<>>, <<>>)
dbSubnetsParam == makeParam("DBSubnets", "List<AWS::EC2::Subnet::Id>", <<>>, <<>>, <<>>, <<>>)
minContainersParam == makeParam("MinContainers", "Number", <<"2">>, <<>>, <<>>, <<2>>)
maxContainersParam == makeParam("MaxContainers", "Number", <<"10">>, <<>>, <<>>, <<2>>)
targetCpuUtilizationParam ==
  makeParam("AutoScalingTargetCpuUtilization", "Number", <<"75">>, <<>>, <<>>, <<0>>)
javaOptsParam == makeParam("JavaOpts", "String", <<>>, <<>>, <<>>, <<>>)
keycloakVersion == makeParam("Keycloak Version", "String", <<"cb.15.0.2">>, <<>>, <<>>, <<>>)

\* the argument of each addGroupParam call of the constructor
Group(label, params) == <<[key |-> label, val |-> params]>>

AlbGroup == Group("Application Load Balancer Settings", <<certificateArnParam>>)
DatabaseGroup == Group("Database Instance Settings", <<databaseInstanceTypeParam>>)
VpcGroup == Group("VPC Settings", <<vpcIdParam, pubSubnetsParam, privSubnetsParam, dbSubnetsParam>>)

AutoScalingGroupShort ==
  Group("AutoScaling Settings", <<minContainersParam, targetCpuUtilizationParam>>)

AutoScalingGroup ==
  Group("AutoScaling Settings",
        <<minContainersParam, maxContainersParam, targetCpuUtilizationParam>>)

EnvironmentLabelCopied == "AutoScaling Settings"

EnvironmentLabel == "Environment variable"

EnvironmentGroup == Group(EnvironmentLabel, <<javaOptsParam>>)
VersionGroup == Group("Keycloak Version", <<keycloakVersion>>)

DeclaresDatabaseOnFalse(f) == f.auroraServerless = "false"

\* if (!props.auroraServerless)
DeclaresDatabase(f) == ~IsTrue(f.auroraServerless)

\* if (props.fromExistingVPC)
UsesExistingVpc(f) == IsTrue(f.fromExistingVPC)

azs == <<"a", "b">>

SubnetIdsFromOne(listParam) == [k \in 1..Len(azs) |-> FnSelect(k, listParam)]

\* azs.map((_, index) => Fn.select(index, listParam.valueAsList))
SubnetIds(listParam) == [k \in 1..Len(azs) |-> FnSelect(k - 1, listParam)]

\* the subnets an imported network makes of a list of ids: one per id, in order,
\* in the availability zones taken round robin
ImportSubnets(ids) ==
  [k \in 1..Len(ids) |->
     [subnetId |-> ids[k], availabilityZone |-> azs[((k - 1) % Len(azs)) + 1]]]

\* ec2.Vpc.fromVpcAttributes(this, 'VpcAttr', {...})
VpcFromAttributes ==
  [vpcId |-> Ref(vpcIdParam),
   availabilityZones |-> azs,
   publicSubnets |-> ImportSubnets(SubnetIds(pubSubnetsParam)),
   privateSubnets |-> ImportSubnets(SubnetIds(privSubnetsParam)),
   isolatedSubnets |-> ImportSubnets(SubnetIds(dbSubnetsParam))]

VpcSettingsPartial(s, vpc) ==
  [s EXCEPT !.vpc = <<vpc>>,
            !.publicSubnets = <<[subnets |-> vpc.publicSubnets]>>,
            !.privateSubnets = <<[subnets |-> vpc.privateSubnets]>>]

\* Object.assign(this._keycloakSettings, {vpc, publicSubnets, privateSubnets, databaseSubnets})
VpcSettings(s, vpc) ==
  [s EXCEPT !.vpc = <<vpc>>,
            !.publicSubnets = <<[subnets |-> vpc.publicSubnets]>>,
            !.privateSubnets = <<[subnets |-> vpc.privateSubnets]>>,
            !.databaseSubnets = <<[subnets |-> vpc.isolatedSubnets]>>]

\* private _keycloakSettings: KeycloakSettings = { certificateArn: '' }
InitialSettings ==
  [certificateArn |-> <<Literal("")>>, vpc |-> <<>>, publicSubnets |-> <<>>,
   privateSubnets |-> <<>>, databaseSubnets |-> <<>>, databaseInstanceType |-> <<>>]

MakeParamEvent(p) == [op |-> "makeParam", arg |-> p.id]
GroupEvent(props) == [op |-> "addGroupParam", arg |-> props[1].key]
ComposeEvent == [op |-> "KeyCloak", arg |-> "KeyCloak"]

\* the makeParam calls of a block followed by its addGroupParam call
Declare(i, params, props) ==
  /\ declared' = [declared EXCEPT ![i] = @ \o params]
  /\ trace' = [trace EXCEPT ![i] = @ \o MapSeq(MakeParamEvent, params) \o <<GroupEvent(props)>>]
  /\ AddGroupParam(i, props)

Skip == UNCHANGED <<declared, trace, paramGroup, metadata, failed>>

Goto(i, next) == pc' = [pc EXCEPT ![i] = next]

DeclareCertificate(i) ==
  /\ pc[i] = "certificate"
  /\ Declare(i, <<certificateArnParam>>, AlbGroup)
  /\ keycloakSettings' =
       [keycloakSettings EXCEPT ![i].certificateArn = <<Ref(certificateArnParam)>>]
  /\ Goto(i, "database")
  /\ UNCHANGED <<history, flags, composer, resolved>>

DeclareDatabase(i) ==
  /\ pc[i] = "database"
  /\ IF DeclaresDatabase(flags[i])
     THEN /\ Declare(i, <<databaseInstanceTypeParam>>, DatabaseGroup)
          /\ keycloakSettings' =
               [keycloakSettings EXCEPT
                  ![i].databaseInstanceType = <<InstanceType(databaseInstanceTypeParam)>>]
     ELSE /\ Skip
          /\ UNCHANGED keycloakSettings
  /\ Goto(i, "vpc")
  /\ UNCHANGED <<history, flags, composer, resolved>>

DeclareVpc(i) ==
  /\ pc[i] = "vpc"
  /\ IF UsesExistingVpc(flags[i])
     THEN /\ Declare(i, <<vpcIdParam, pubSubnetsParam, privSubnetsParam, dbSubnetsParam>>,
                     VpcGroup)
          /\ keycloakSettings' =
               [keycloakSettings EXCEPT ![i] = VpcSettings(@, VpcFromAttributes)]
     ELSE /\ Skip
          /\ UNCHANGED keycloakSettings
  /\ Goto(i, "autoscaling")
  /\ UNCHANGED <<history, flags, composer, resolved>>

DeclareAutoScaling(i) ==
  /\ pc[i] = "autoscaling"
  /\ Declare(i, <<minContainersParam, maxContainersParam, targetCpuUtilizationParam>>,
             AutoScalingGroup)
  /\ Goto(i, "environment")
  /\ UNCHANGED <<history, flags, keycloakSettings, composer, resolved>>

DeclareEnvironment(i) ==
  /\ pc[i] = "environment"
  /\ Declare(i, <<javaOptsParam>>, EnvironmentGroup)
  /\ Goto(i, "version")
  /\ UNCHANGED <<history, flags, keycloakSettings, composer, resolved>>

DeclareVersion(i) ==
  /\ pc[i] = "version"
  /\ Declare(i, <<keycloakVersion>>, VersionGroup)
  /\ Goto(i, "compose")
  /\ UNCHANGED <<history, flags, keycloakSettings, composer, resolved>>

\* the props of new KeyCloak(this, 'KeyCloak', {...})
KeyCloakProps(s, f) ==
  [vpc |-> s.vpc,
   publicSubnets |-> s.publicSubnets,
   privateSubnets |-> s.privateSubnets,
   databaseSubnets |-> s.databaseSubnets,
   certificateArn |-> s.certificateArn,
   auroraServerless |-> f.auroraServerless,
   databaseInstanceType |-> s.databaseInstanceType,
   stickinessCookieDays |-> 7,
   nodeCount |-> Ref(minContainersParam),
   autoScaleTask |-> [min |-> Ref(minContainersParam),
                      max |-> Ref(maxContainersParam),
                      targetCpuUtilization |-> Ref(targetCpuUtilizationParam)],
   env |-> [JAVA_OPTS |-> Ref(javaOptsParam)],
   keycloakVersion |-> [fn |-> "KeycloakVersion.of", arg |-> Ref(keycloakVersion)]]

Compose(i) ==
  /\ pc[i] = "compose"
  /\ composer' = [composer EXCEPT ![i] = Append(@, KeyCloakProps(keycloakSettings[i], flags[i]))]
  /\ trace' = [trace EXCEPT ![i] = Append(@, ComposeEvent)]
  /\ Goto(i, "done")
  /\ UNCHANGED <<paramGroup, metadata, failed, history, flags, declared,
                 keycloakSettings, resolved>>

----------------------------------------------------------------------------
\* Instantiation of the template: the deferred values are resolved against the
\* values supplied for the parameters

SELECT_ERROR == "<Fn::Select out of range>"
NO_VALUE == "<no value>"

SubnetLists ==
  {<<"subnet-f">>, <<"subnet-d", "subnet-e">>, <<"subnet-a", "subnet-b", "subnet-c">>}

IsDeclared(decl, lid) == \E k \in 1..Len(decl) : decl[k].logicalId = lid

ParamByLogicalId(decl, lid) == decl[CHOOSE k \in 1..Len(decl) : decl[k].logicalId = lid]

\* the values a deployment may supply: none for a parameter that is not declared
SuppliedValues(decl) ==
  [DatabaseInstanceType :
     IF IsDeclared(decl, "DatabaseInstanceType") THEN {<<>>, <<"m5.xlarge">>} ELSE {<<>>},
   VpcId : IF IsDeclared(decl, "VpcId") THEN {<<"vpc-1">>} ELSE {<<>>},
   PubSubnets : IF IsDeclared(decl, "PubSubnets") THEN SubnetLists ELSE {<<>>},
   PrivSubnets : IF IsDeclared(decl, "PrivSubnets") THEN SubnetLists ELSE {<<>>},
   DBSubnets : IF IsDeclared(decl, "DBSubnets") THEN SubnetLists ELSE {<<>>}]

\* the value of a deferred reference: Ref and InstanceType give the supplied value
\* or the parameter's default, Fn::Select the element at a zero-based index
ResolveToken(tok, supplied, decl) ==
  IF tok.fn = "Fn::Select"
  THEN IF tok.index < Len(supplied[tok.arg])
       THEN supplied[tok.arg][tok.index + 1]
       ELSE SELECT_ERROR
  ELSE IF supplied[tok.arg] # <<>> THEN supplied[tok.arg][1]
  ELSE IF ParamByLogicalId(decl, tok.arg).default # <<>>
       THEN ParamByLogicalId(decl, tok.arg).default[1]
  ELSE NO_VALUE

ResolveSelection(sel, supplied, decl) ==
  [k \in 1..Len(sel) |->
     [j \in 1..Len(sel[k].subnets) |->
        ResolveToken(sel[k].subnets[j].subnetId, supplied, decl)]]

\* the settings the composer was given, with the values of a deployment
ResolveSettings(k, supplied, decl) ==
  [databaseInstanceType |->
     [j \in 1..Len(k.databaseInstanceType) |->
        ResolveToken(k.databaseInstanceType[j], supplied, decl)],
   vpc |-> [j \in 1..Len(k.vpc) |-> ResolveToken(k.vpc[j].vpcId, supplied, decl)],
   publicSubnets |-> ResolveSelection(k.publicSubnets, supplied, decl),
   privateSubnets |-> ResolveSelection(k.privateSubnets, supplied, decl),
   databaseSubnets |-> ResolveSelection(k.databaseSubnets, supplied, decl)]

Instantiate(i) ==
  /\ pc[i] = "done"
  /\ \E supplied \in SuppliedValues(declared[i]) :
       resolved' = [resolved EXCEPT ![i] =
                      <<[supplied |-> supplied,
                         settings |-> ResolveSettings(composer[i][1], supplied, declared[i])]>>]
  /\ Goto(i, "instantiated")
  /\ UNCHANGED <<paramGroup, metadata, failed, history, flags, declared,
                 keycloakSettings, composer, trace>>

Init ==
  /\ paramGroup = [r \in Instances |-> EmptyObject]
  /\ metadata = [i \in Instances |-> <<>>]
  /\ failed = [i \in Instances |-> FALSE]
  /\ history = <<>>
  /\ flags \in [Instances -> [auroraServerless : FlagValues, fromExistingVPC : FlagValues]]
  /\ pc = [i \in Instances |-> "certificate"]
  /\ declared = [i \in Instances |-> <<>>]
  /\ keycloakSettings = [i \in Instances |-> InitialSettings]
  /\ composer = [i \in Instances |-> <<>>]
  /\ trace = [i \in Instances |-> <<>>]
  /\ resolved = [i \in Instances |-> <<>>]

Next ==
  \E i \in Instances :
    \/ DeclareCertificate(i)
    \/ DeclareDatabase(i)
    \/ DeclareVpc(i)
    \/ DeclareAutoScaling(i)
    \/ DeclareEnvironment(i)
    \/ DeclareVersion(i)
    \/ Compose(i)
    \/ Instantiate(i)

Spec == Init /\ [][Next]_vars

----------------------------------------------------------------------------
\* Properties of the registry (SpecReg)

LabelsOf(groups) == [k \in 1..Len(groups) |-> groups[k].Label]

HasGroup(groups, label) == \E k \in 1..Len(groups) : groups[k].Label = label

IdsOf(groups, label) ==
  groups[CHOOSE k \in 1..Len(groups) : groups[k].Label = label].Parameters

IsPresentParam(p) == p.kind = "CfnParameter" /\ p.logicalId # ""
IdentifierOf(p) == p.logicalId

\* the identifiers a call gives for a label, absent and empty ones left out
FilteredIds(params) == MapSeq(IdentifierOf, SelectSeq(params, IsPresentParam))

\* the filtered lists of the calls that named the label, most recent call first
RECURSIVE ReverseCallConcat(_, _)
ReverseCallConcat(label, calls) ==
  IF calls = <<>> THEN <<>>
  ELSE LET last == calls[Len(calls)]
       IN (IF HasOwn(last, label) THEN FilteredIds(OwnValue(last, label)) ELSE <<>>)
          \o ReverseCallConcat(label, SubSeq(calls, 1, Len(calls) - 1))

WasNamed(label) == \E c \in 1..Len(history) : HasOwn(history[c], label)

\* C1: for every label some call named, the identifier sequence exported for it
\* is the concatenation of the filtered identifier lists of the calls that named
\* it, most recent call first, each call's identifiers in the order given
C1_ReverseCallOrder ==
  \A label \in Labels :
    WasNamed(label) =>
      /\ HasGroup(metadata[1], label)
      /\ IdsOf(metadata[1], label) = ReverseCallConcat(label, history)

\* two calls named "A", the first with P1, P2 and the second with undefined, P2
C1_Witness ==
  /\ Len(history) = 2
  /\ HasOwn(history[1], "A") /\ OwnValue(history[1], "A") = <<P1, P2>>
  /\ HasOwn(history[2], "A") /\ OwnValue(history[2], "A") = <<Undefined, P2>>
  /\ IdsOf(metadata[1], "A") = <<"P2", "P1", "P2">>

\* C2: no exported group holds an empty or undefined identifier, and no
\* addGroupParam call fails, whatever absent or empty-identifier parameters
\* the calls listed
C2_NoEmptyIdentifier ==
  /\ ~failed[1]
  /\ \A k \in 1..Len(metadata[1]) :
       \A j \in 1..Len(metadata[1][k].Parameters) :
         metadata[1][k].Parameters[j] \notin {"", UNDEFINED, TYPE_ERROR}

\* the registry holds an absent parameter, a parameter with an empty identifier
\* and an inherited member, and groups were exported
C2_Witness ==
  /\ \E k \in 1..Len(paramGroup[1]) : Undefined \in Range(paramGroup[1][k].val)
  /\ \E k \in 1..Len(paramGroup[1]) : PEmpty \in Range(paramGroup[1][k].val)
  /\ \E k \in 1..Len(paramGroup[1]) : ProtoFunction \in Range(paramGroup[1][k].val)
  /\ Len(metadata[1]) = 2

KeysOfCall(props) == ObjectKeys(props)

\* the distinct labels in the order the calls first registered them
FirstRegistrationOrder(calls) == Dedup(Flatten(MapSeq(KeysOfCall, calls)))

\* C3: the exported list has one entry per distinct label registered, in the
\* order of the labels' first registration
C3_FirstRegistrationOrder == LabelsOf(metadata[1]) = FirstRegistrationOrder(history)

\* C3, the part about later calls: a call that names only labels registered
\* before leaves the exported labels and their positions as they were
C3_PositionsStable ==
  [][(history' # history /\ \A k \in 1..Len(history'[Len(history')]) :
         HasGroup(metadata[1], history'[Len(history')][k].key))
      => LabelsOf(metadata'[1]) = LabelsOf(metadata[1])]_vars

----------------------------------------------------------------------------
\* Properties of the construction of KeycloakStack (Spec)

Finished(i) == pc[i] \in {"done", "instantiated"}

Serverless(i) == flags[i].auroraServerless = "true"
ExistingNetwork(i) == flags[i].fromExistingVPC = "true"

\* C4: the composer's database instance class is set exactly when
\* auroraServerless is not true; when it is true the DatabaseInstanceType
\* parameter is never declared and its group never registered; otherwise the
\* field is the value of that parameter, "r5.large" unless a value is supplied;
\* exactly one of {instance class set, serverless flag true} holds
C4_InstanceClassIffNotServerless ==
  \A i \in Instances :
    /\ Serverless(i) =>
         /\ ~IsDeclared(declared[i], "DatabaseInstanceType")
         /\ ~HasGroup(metadata[i], "Database Instance Settings")
    /\ Finished(i) =>
         /\ Len(composer[i]) = 1
         /\ (composer[i][1].databaseInstanceType # <<>>) <=> ~Serverless(i)
         /\ (composer[i][1].databaseInstanceType # <<>>)
              # (composer[i][1].auroraServerless = "true")
         /\ ~Serverless(i) =>
              /\ composer[i][1].databaseInstanceType
                   = <<[fn |-> "InstanceType", arg |-> "DatabaseInstanceType", index |-> 0]>>
              /\ ParamByLogicalId(declared[i], "DatabaseInstanceType").default = <<"r5.large">>
              /\ HasGroup(metadata[i], "Database Instance Settings")
    /\ pc[i] = "instantiated" =>
         resolved[i][1].settings.databaseInstanceType =
           IF Serverless(i) THEN <<>>
           ELSE IF resolved[i][1].supplied.DatabaseInstanceType = <<>> THEN <<"r5.large">>
           ELSE resolved[i][1].supplied.DatabaseInstanceType

\* a serverless stack and a stack with the flag omitted, both instantiated, the
\* second with no instance class supplied
C4_Witness ==
  /\ flags[1].auroraServerless = "true" /\ flags[2].auroraServerless = UNDEFINED
  /\ pc[1] = "instantiated" /\ pc[2] = "instantiated"
  /\ resolved[1][1].settings.databaseInstanceType = <<>>
  /\ resolved[2][1].settings.databaseInstanceType = <<"r5.large">>
  /\ composer[1][1].auroraServerless = "true"

NetworkFields(k) == <<k.vpc, k.publicSubnets, k.privateSubnets, k.databaseSubnets>>

\* C5: the four network fields are all set when fromExistingVPC is true and all
\* unset otherwise, with no network parameter declared and no 'VPC Settings'
\* group then, whatever auroraServerless is
C5_NetworkAllOrNone ==
  \A i \in Instances :
    /\ \A j \in 1..4 :
         (NetworkFields(keycloakSettings[i])[j] # <<>>)
           <=> (ExistingNetwork(i) /\ pc[i] \notin {"certificate", "database", "vpc"})
    /\ Finished(i) =>
         /\ \A j \in 1..4 : (NetworkFields(composer[i][1])[j] # <<>>) <=> ExistingNetwork(i)
         /\ ~ExistingNetwork(i) =>
              /\ \A lid \in {"VpcId", "PubSubnets", "PrivSubnets", "DBSubnets"} :
                   ~IsDeclared(declared[i], lid)
              /\ ~HasGroup(metadata[i], "VPC Settings")

\* one finished stack with the existing network and one with the flag omitted
C5_Witness ==
  /\ flags[1].fromExistingVPC = "true" /\ flags[2].fromExistingVPC = UNDEFINED
  /\ flags[1].auroraServerless = "true" /\ flags[2].auroraServerless = "false"
  /\ Finished(1) /\ Finished(2)
  /\ composer[1][1].databaseSubnets # <<>>
  /\ composer[2][1].vpc = <<>>

FirstTwo(list) == <<<<list[1], list[2]>>>>

\* C6: with fromExistingVPC true, each subnet selection of a list of at least
\* two ids holds exactly the ids at positions 0 and 1 of the list, in that order
C6_SubnetsAtPositionsZeroAndOne ==
  \A i \in Instances :
    (pc[i] = "instantiated" /\ ExistingNetwork(i)) =>
      LET r == resolved[i][1]
      IN /\ Len(r.supplied.PubSubnets) >= 2 =>
              r.settings.publicSubnets = FirstTwo(r.supplied.PubSubnets)
         /\ Len(r.supplied.PrivSubnets) >= 2 =>
              r.settings.privateSubnets = FirstTwo(r.supplied.PrivSubnets)
         /\ Len(r.supplied.DBSubnets) >= 2 =>
              r.settings.databaseSubnets = FirstTwo(r.supplied.DBSubnets)

\* three public subnets, two private and three database subnets supplied
C6_Witness ==
  /\ pc[1] = "instantiated" /\ ExistingNetwork(1)
  /\ resolved[1][1].supplied.PubSubnets = <<"subnet-a", "subnet-b", "subnet-c">>
  /\ resolved[1][1].supplied.PrivSubnets = <<"subnet-d", "subnet-e">>
  /\ resolved[1][1].supplied.DBSubnets = <<"subnet-a", "subnet-b", "subnet-c">>
  /\ resolved[1][1].settings.publicSubnets = <<<<"subnet-a", "subnet-b">>>>

\* C7: the version selector is declared with an allowed-values constraint and a
\* default among the allowed values, and is registered in group 'Keycloak Version'
C7_VersionEnumerated ==
  \A i \in Instances :
    IsDeclared(declared[i], "KeycloakVersion") =>
      /\ ParamByLogicalId(declared[i], "KeycloakVersion").allowedValues # <<>>
      /\ ParamByLogicalId(declared[i], "KeycloakVersion").default # <<>>
      /\ ParamByLogicalId(declared[i], "KeycloakVersion").default[1]
           \in ParamByLogicalId(declared[i], "KeycloakVersion").allowedValues[1]
      /\ HasGroup(metadata[i], "Keycloak Version")
      /\ IdsOf(metadata[i], "Keycloak Version") = <<"KeycloakVersion">>

\* the addGroupParam calls a stack with the given flags has made on reaching a position
CallsBefore(f, at) ==
  (IF at # "certificate" THEN <<AlbGroup>> ELSE <<>>)
  \o (IF at \notin {"certificate", "database"} /\ f.auroraServerless # "true"
      THEN <<DatabaseGroup>> ELSE <<>>)
  \o (IF at \notin {"certificate", "database", "vpc"} /\ f.fromExistingVPC = "true"
      THEN <<VpcGroup>> ELSE <<>>)
  \o (IF at \notin {"certificate", "database", "vpc", "autoscaling"}
      THEN <<AutoScalingGroup>> ELSE <<>>)
  \o (IF at \in {"version", "compose", "done", "instantiated"}
      THEN <<EnvironmentGroup>> ELSE <<>>)
  \o (IF at \in {"compose", "done", "instantiated"} THEN <<VersionGroup>> ELSE <<>>)

RECURSIVE Replay(_, _)
Replay(o, calls) ==
  IF calls = <<>> THEN o ELSE Replay(AfterAddGroupParam(o, Head(calls)), Tail(calls))

\* the registry of a stack constructed alone, on reaching a position
SoloRegistry(f, at) == Replay(EmptyObject, CallsBefore(f, at))

\* C8: with the steps of two stacks interleaved in any order, each stack's
\* registry and exported groups are at every point those of the same stack
\* constructed alone
C8_IndependentRegistries ==
  \A i \in Instances :
    /\ paramGroup[RegistryOf(i)] = SoloRegistry(flags[i], pc[i])
    /\ metadata[i] = ParameterGroups(SoloRegistry(flags[i], pc[i]))
    /\ ~failed[i]

\* two stacks of different modes, the second finished while the first is still
\* declaring
C8_Witness ==
  /\ Finished(2) /\ pc[1] = "environment"
  /\ flags[1].fromExistingVPC = "true" /\ flags[2].fromExistingVPC = "false"
  /\ Len(metadata[1]) = 4 /\ Len(metadata[2]) = 5

EventsAt(t, op) == {b \in 1..Len(t) : t[b].op = op}

\* C9 as stated: every addGroupParam call comes after every makeParam call,
\* each label is registered once, and KeyCloak is invoked once, last
C9_RegisterAfterAllDeclarations ==
  \A i \in Instances :
    /\ \A a \in EventsAt(trace[i], "makeParam") :
         \A b \in EventsAt(trace[i], "addGroupParam") : a < b
    /\ \A a, b \in EventsAt(trace[i], "addGroupParam") :
         a # b => trace[i][a].arg # trace[i][b].arg
    /\ Finished(i) =>
         EventsAt(trace[i], "KeyCloak") = {Len(trace[i])}

\* C9 amended: every addGroupParam call directly follows the makeParam calls of
\* the parameters of its own group, each label formed is registered exactly
\* once, and KeyCloak is invoked exactly once, after every makeParam and
\* addGroupParam call, and not before the construction finishes
C9_RegisterAfterOwnDeclarations ==
  \A i \in Instances :
    /\ \A b \in EventsAt(trace[i], "addGroupParam") :
         /\ b > 1 /\ trace[i][b - 1].op = "makeParam"
         /\ HasGroup(metadata[i], trace[i][b].arg)
         /\ \A id \in Range(IdsOf(metadata[i], trace[i][b].arg)) :
              \E a \in EventsAt(trace[i], "makeParam") :
                /\ a < b
                /\ LogicalId(trace[i][a].arg) = id
                /\ \A c \in EventsAt(trace[i], "addGroupParam") : ~(a < c /\ c < b)
    /\ \A a, b \in EventsAt(trace[i], "addGroupParam") :
         a # b => trace[i][a].arg # trace[i][b].arg
    /\ {trace[i][b].arg : b \in EventsAt(trace[i], "addGroupParam")}
         = Range(LabelsOf(metadata[i]))
    /\ EventsAt(trace[i], "KeyCloak") = IF Finished(i) THEN {Len(trace[i])} ELSE {}
    /\ Len(composer[i]) = Cardinality(EventsAt(trace[i], "KeyCloak"))

\* a finished stack of the mode that declares every parameter
C9_Witness ==
  /\ Finished(1) /\ flags[1].auroraServerless = "false" /\ ExistingNetwork(1)
  /\ Cardinality(EventsAt(trace[1], "addGroupParam")) = 6
  /\ Cardinality(EventsAt(trace[1], "makeParam")) = 11
  /\ trace[1][Len(trace[1])].op = "KeyCloak"

GroupParameters(g) == g.Parameters

ExportedIds(i) == Flatten(MapSeq(GroupParameters, metadata[i]))

ExpectedLabels(i) ==
  <<"Application Load Balancer Settings">>
  \o (IF Serverless(i) THEN <<>> ELSE <<"Database Instance Settings">>)
  \o (IF ExistingNetwork(i) THEN <<"VPC Settings">> ELSE <<>>)
  \o <<"AutoScaling Settings", "Environment variable", "Keycloak Version">>

\* C10: once construction finishes, every declared parameter is in exactly one
\* exported group, exactly once, every exported identifier is a declared
\* parameter, the identifiers are pairwise distinct, and the labels are in the
\* order of the constructor's blocks
C10_GroupsPartitionParameters ==
  \A i \in Instances :
    Finished(i) =>
      LET ids == ExportedIds(i)
          lids == [k \in 1..Len(declared[i]) |-> declared[i][k].logicalId]
      IN /\ \A k \in 1..Len(lids) :
              Cardinality({j \in 1..Len(ids) : ids[j] = lids[k]}) = 1
         /\ \A j \in 1..Len(ids) : ids[j] \in Range(lids)
         /\ \A k, l \in 1..Len(lids) : k # l => lids[k] # lids[l]
         /\ LabelsOf(metadata[i]) = ExpectedLabels(i)

\* finished stacks of two different modes
C10_Witness ==
  /\ Finished(1) /\ Finished(2)
  /\ flags[1] = [auroraServerless |-> "true", fromExistingVPC |-> "true"]
  /\ flags[2] = [auroraServerless |-> UNDEFINED, fromExistingVPC |-> UNDEFINED]
  /\ Len(ExportedIds(1)) = 10 /\ Len(ExportedIds(2)) = 7

====
